---- MODULE Spec2Model ----
(***************************************************************************)
(* Model of pkg/inventory/model/client.go: the Client (Store) that         *)
(* serializes writes to a single-writer backend with two locks (the        *)
(* embedded RWMutex and dbMutex), routes every mutation through the        *)
(* Journal, and builds Watches as snapshot-then-live event streams.        *)
(*                                                                         *)
(* Table (the relational mapper), Journal and Watch are declared in other  *)
(* files of the package; they are modelled from their documented contract. *)
(***************************************************************************)
EXTENDS Integers, Sequences, FiniteSets, TLC

\* ------------------------------------------------------------------ bounds
\* Number of Journal events (successful mutations) a behaviour may stage.
MaxMut == 2
\* Number of transactions Begin() may open in a behaviour.
MaxTx == 2
\* Number of Watch() calls in a behaviour.
MaxWatch == 1
\* Number of backend failures (an error from database/sql or from the
\* relational mapper that the arguments do not force) in a behaviour.
MaxFail == 1

\* ------------------------------------------------------------------ inputs
\* Concurrent callers (goroutines) of one Client.
Callers == {"c1", "c2"}
NoCaller == "none"
\* Model types, and the primary keys used for each.
Kinds == {"A", "B"}
\* Models the callers pass; val is the value of the single label ("env") the
\* model carries.
Models == {[kind |-> "A", pk |-> 1, val |-> 1], [kind |-> "A", pk |-> 1, val |-> 2],
           [kind |-> "A", pk |-> 2, val |-> 1], [kind |-> "B", pk |-> 1, val |-> 1]}
\* The models passed to Insert, to Update (the key that has two values) and
\* to Delete (one model per key).
InsertModels == Models
UpdateModels == {m \in Models : m.kind = "A" /\ m.pk = 1}
DeleteModels == {m \in Models : m.val = 1}
\* The models passed to Get and GetForUpdate (located by primary key).
GetModels == {m \in Models : m.val = 1}

VARIABLES
    mu,         \* Client.RWMutex: the caller holding it, or NoCaller
    dbMutex,    \* Client.dbMutex: TRUE when locked
    tx,         \* Client.tx: id of the current sql.Tx, 0 when nil
    db,         \* committed backend state: [rows, labels]
    txdb,       \* working state of the open backend transaction: [rows, labels, muts]
    staged,     \* Journal: staged events, FIFO
    watches,    \* Journal: registered watches, in registration order
    pc,         \* per caller: the Client method it is inside, "idle" when in none
    handle,     \* per caller: the *Tx last returned to it by Begin (its ref), 0 when none
    ret,        \* what the last completed call returned
    got,        \* what the last Get, List or Count that returned no error read
    ntx,        \* number of sql.Tx opened so far
    nfail,      \* number of backend failures so far
    nmut,       \* number of Journal events staged so far
    committed,  \* history: ids of the mutations committed in the backend, in commit order
    mut,        \* history: per mutation id, the write unit it ran in (its Tx, 0 for
                \* autocommit), its caller when it ran in a Tx, its type, whether it
                \* staged an event
    txStatus,   \* history: per Tx id, "none", "open", "committed", "commitFailed", "ended"
    txOwner,    \* history: per Tx id, the caller Begin returned it to
    wreg        \* history: per watch, at its registration: the mutations committed,
                \* the mutations staged, the committed rows of its type

vars == <<mu, dbMutex, tx, db, txdb, staged, watches, pc, handle, ret, got,
          ntx, nfail, nmut, committed, mut, txStatus, txOwner, wreg>>

\* ------------------------------------------------------ generic operators
Range(s) == {s[i] : i \in 1..Len(s)}

RECURSIVE Concat(_, _)
Concat(s, t) == IF t = <<>> THEN s ELSE Concat(Append(s, Head(t)), Tail(t))

\* Position of x in s, 0 when absent.
IndexOf(s, x) == IF \E i \in 1..Len(s) : s[i] = x
                 THEN CHOOSE i \in 1..Len(s) : s[i] = x /\ \A j \in 1..(i - 1) : s[j] # x
                 ELSE 0

\* --------------------------------------------- Table (relational mapper)
EmptyDB == [rows |-> <<>>, labels |-> {}]
NoTxDB == [rows |-> <<>>, labels |-> {}, muts |-> <<>>]

SameKey(a, b) == a.kind = b.kind /\ a.pk = b.pk

\* Table.Get: whether the row is there, and the stored row.
HasRow(d, m) == \E i \in 1..Len(d.rows) : SameKey(d.rows[i], m)
TableGet(d, m) == d.rows[CHOOSE i \in 1..Len(d.rows) : SameKey(d.rows[i], m)]

\* Table.List with no predicate: the rows of one type, in storage order.
TableList(d, kind) == SelectSeq(d.rows, LAMBDA r : r.kind = kind)

\* Table.Insert / Update / Delete of the primary row.
TableInsert(d, m) == [d EXCEPT !.rows = Append(@, m)]
TableUpdate(d, m) == [d EXCEPT !.rows = [i \in 1..Len(@) |-> IF SameKey(@[i], m) THEN m ELSE @[i]]]
TableDelete(d, m) == [d EXCEPT !.rows = SelectSeq(@, LAMBDA r : ~SameKey(r, m))]

\* Model.Labels(): the label mapping of a model.
Labels(m) == {[name |-> "env", value |-> m.val]}

\* Label rows of a model, as insertLabels builds them.
LabelRows(m) == {[kind |-> m.kind, parent |-> m.pk, name |-> l.name, value |-> l.value] : l \in Labels(m)}

\* The Label rows deleteLabels lists: those with Kind and Parent of the model.
LabelsOf(d, m) == {l \in d.labels : l.kind = m.kind /\ l.parent = m.pk}

\* insertLabels, all of its Table.Insert calls succeeding.
insertLabels(d, m) == [d EXCEPT !.labels = @ \cup LabelRows(m)]

\* deleteLabels, its Table.List and all of its Table.Delete calls succeeding.
deleteLabels(d, m) == [d EXCEPT !.labels = @ \ LabelsOf(d, m)]

\* replaceLabels without its deleteLabels.
replaceLabelsNoDelete(d, m) == insertLabels(d, m)

\* replaceLabels: deleteLabels, then insertLabels.
replaceLabels(d, m) == insertLabels(deleteLabels(d, m), m)

\* ---------------------------------------------------------------- Journal
NoEvent == [action |-> "none", kind |-> "none", pk |-> 0, val |-> 0, prior |-> 0, id |-> 0]

\* Event built by Journal.Created / Updated / Deleted; id numbers the mutation.
CreatedEvent(m, id) == [action |-> "Created", kind |-> m.kind, pk |-> m.pk, val |-> m.val, prior |-> 0, id |-> id]
UpdatedEvent(cur, m, id) == [action |-> "Updated", kind |-> m.kind, pk |-> m.pk, val |-> m.val, prior |-> cur.val, id |-> id]
DeletedEvent(m, id) == [action |-> "Deleted", kind |-> m.kind, pk |-> m.pk, val |-> m.val, prior |-> 0, id |-> id]

\* Watch.notify: queue the events of the watch's type for its handler.
Notify(w, evs) == [w EXCEPT !.queue = Concat(@, SelectSeq(evs, LAMBDA e : e.kind = w.kind))]

\* Journal.Commit: every staged event, in FIFO order, to every registered watch.
Dispatch(ws, evs) == [i \in 1..Len(ws) |-> Notify(ws[i], evs)]

\* The snapshot Client.Watch replays: one Created event per listed row (id 0).
Snapshot(rows) == [i \in 1..Len(rows) |-> CreatedEvent(rows[i], 0)]

\* What Get, List and Count were called with (arg: the type, and the primary
\* key for Get) and hand back: the rows read and the count.
ReadResult(op, arg, rows, n) == [op |-> op, arg |-> arg, rows |-> rows, n |-> n]
NoRead == ReadResult("none", <<>>, <<>>, 0)

\* ------------------------------------------------- mutation outcomes
\* What a mutation method can do to the backend handle it writes through:
\* d is the handle's state when the method returns, res what it returned
\* ("ok", "NotFound" for the error of a Table.Get that finds no row, "err"
\* for any other error), ev the event it staged (NoEvent when it staged
\* none), fault whether a backend failure caused the error.
Outcome(d, res, ev, fault) == [d |-> d, res |-> res, ev |-> ev, fault |-> fault]

\* Insert that stages its event before insertLabels.
InsertOutcomesStageFirst(d, m, id) ==
    IF HasRow(d, m)
    THEN {Outcome(d, "err", NoEvent, FALSE)}
    ELSE {Outcome(insertLabels(TableInsert(d, m), m), "ok", CreatedEvent(m, id), FALSE),
          Outcome(d, "err", NoEvent, TRUE),
          Outcome(TableInsert(d, m), "err", CreatedEvent(m, id), TRUE)}

\* Client.Insert: Table.Insert, insertLabels, Journal.Created.
InsertOutcomes(d, m, id) ==
    IF HasRow(d, m)
    THEN {Outcome(d, "err", NoEvent, FALSE)}     \* Table.Insert: the key exists
    ELSE {Outcome(insertLabels(TableInsert(d, m), m), "ok", CreatedEvent(m, id), FALSE),
          \* Table.Insert fails
          Outcome(d, "err", NoEvent, TRUE),
          \* insertLabels fails after the row is written
          Outcome(TableInsert(d, m), "err", NoEvent, TRUE)}

\* Update without the Table.Get of the current row: Table.Update of a row
\* that is not there updates nothing and returns no error.
UpdateOutcomesNoGet(d, m, id) ==
    {Outcome(replaceLabels(TableUpdate(d, m), m), "ok",
             UpdatedEvent(IF HasRow(d, m) THEN TableGet(d, m) ELSE m, m, id), FALSE)}

\* Update that reads the current row after Table.Update.
UpdateOutcomesGetAfter(d, m, id) ==
    IF ~HasRow(d, m)
    THEN {Outcome(d, "NotFound", NoEvent, FALSE)}
    ELSE {Outcome(replaceLabels(TableUpdate(d, m), m), "ok", UpdatedEvent(m, m, id), FALSE)}

\* Client.Update: Table.Get of the current row, Table.Update, replaceLabels,
\* Journal.Updated.
UpdateOutcomes(d, m, id) ==
    IF ~HasRow(d, m)
    THEN {Outcome(d, "NotFound", NoEvent, FALSE)}    \* Table.Get: not found
    ELSE {Outcome(replaceLabels(TableUpdate(d, m), m), "ok", UpdatedEvent(TableGet(d, m), m, id), FALSE),
          \* Table.Get or Table.Update fails
          Outcome(d, "err", NoEvent, TRUE),
          \* deleteLabels fails after the row is updated
          Outcome(TableUpdate(d, m), "err", NoEvent, TRUE),
          \* insertLabels fails after the labels are deleted
          Outcome(deleteLabels(TableUpdate(d, m), m), "err", NoEvent, TRUE)}

\* Client.Delete: Table.Delete, deleteLabels, Journal.Deleted. Table.Delete of
\* a row that is not there deletes nothing and returns no error.
DeleteOutcomes(d, m, id) ==
    {Outcome(deleteLabels(TableDelete(d, m), m), "ok", DeletedEvent(m, id), FALSE),
     \* Table.Delete fails
     Outcome(d, "err", NoEvent, TRUE),
     \* deleteLabels fails after the row is deleted
     Outcome(TableDelete(d, m), "err", NoEvent, TRUE)}

\* ------------------------------------------------------------------- Init
Init ==
    /\ mu = NoCaller
    /\ dbMutex = FALSE
    /\ tx = 0
    /\ db = EmptyDB
    /\ txdb = NoTxDB
    /\ staged = <<>>
    /\ watches = <<>>
    /\ pc = [p \in Callers |-> "idle"]
    /\ handle = [p \in Callers |-> 0]
    /\ ret = "none"
    /\ got = NoRead
    /\ ntx = 0
    /\ nfail = 0
    /\ nmut = 0
    /\ committed = <<>>
    /\ mut = <<>>
    /\ txStatus = [t \in 1..MaxTx |-> "none"]
    /\ txOwner = [t \in 1..MaxTx |-> NoCaller]
    /\ wreg = <<>>

\* r.Lock() at the head of a method, by a caller that is in no method.
CanLock(p) == pc[p] = "idle" /\ mu = NoCaller

\* A method that runs from r.Lock() to the deferred r.Unlock() without
\* blocking returns `res`.
Result(p, res) ==
    /\ CanLock(p)
    /\ ret' = res
    /\ UNCHANGED <<mu, pc, got>>

\* A backend call fails (fault) or not, within the failure budget.
Fault(fault) ==
    /\ fault => nfail < MaxFail
    /\ nfail' = IF fault THEN nfail + 1 ELSE nfail

\* ------------------------------------------------------------------ Begin
\* Begin, up to r.Lock(). A caller that owns the open Tx does not begin
\* another one.
BeginLock(p) ==
    /\ ntx < MaxTx
    /\ ~(tx # 0 /\ txOwner[tx] = p)
    /\ CanLock(p)
    /\ mu' = p
    /\ pc' = [pc EXCEPT ![p] = "Begin"]
    /\ UNCHANGED <<dbMutex, tx, db, txdb, staged, watches, handle, ret, got, ntx, nfail, nmut,
                   committed, mut, txStatus, txOwner, wreg>>

\* Begin, from r.dbMutex.Lock() on. unlocked: r.dbMutex.Lock() can return.
\* Then db.Begin() opens the transaction or fails, and the deferred
\* r.Unlock() runs.
BeginFrom(p, unlocked) ==
    /\ pc[p] = "Begin"
    /\ unlocked
    /\ dbMutex' = TRUE
    /\ mu' = NoCaller
    /\ pc' = [pc EXCEPT ![p] = "idle"]
    /\ \/ /\ Fault(FALSE)
          /\ ntx' = ntx + 1
          /\ tx' = ntx + 1
          /\ txdb' = [rows |-> db.rows, labels |-> db.labels, muts |-> <<>>]
          /\ handle' = [handle EXCEPT ![p] = ntx + 1]
          /\ txStatus' = [txStatus EXCEPT ![ntx + 1] = "open"]
          /\ txOwner' = [txOwner EXCEPT ![ntx + 1] = p]
          /\ ret' = "ok"
       \/ /\ Fault(TRUE)                \* db.Begin() failed: return nil, err
          /\ ret' = "err"
          /\ UNCHANGED <<tx, txdb, handle, ntx, txStatus, txOwner>>
    /\ UNCHANGED <<db, staged, watches, got, nmut, committed, mut, wreg>>

\* Begin without r.dbMutex.Lock().
BeginTxNoDbMutex(p) == BeginFrom(p, TRUE)

\* r.dbMutex.Lock() blocks while dbMutex is locked, the caller holding the
\* RWMutex.
BeginTx(p) == BeginFrom(p, ~dbMutex)

\* ------------------------------------------------ Insert / Update / Delete
\* The models a mutation method is called with, and what it can do.
Inputs(op) ==
    CASE op = "Insert" -> InsertModels
      [] op = "Update" -> UpdateModels
      [] op = "Delete" -> DeleteModels

Outcomes(op, d, m, id) ==
    CASE op = "Insert" -> InsertOutcomes(d, m, id)
      [] op = "Update" -> UpdateOutcomes(d, m, id)
      [] op = "Delete" -> DeleteOutcomes(d, m, id)

\* The mutation method op, from r.Lock() to its return. useTx: the method writes
\* through r.tx (else through r.db, every statement committing at once);
\* needLock: it takes dbMutex for the call; commitNow: it runs
\* Journal.Commit() after staging its event.
Mutate(p, op, useTx, needLock, commitNow) ==
    /\ nmut < MaxMut
    /\ needLock => ~dbMutex
    /\ LET view == IF useTx THEN [rows |-> txdb.rows, labels |-> txdb.labels] ELSE db
           id == nmut + 1
       IN \E m \in Inputs(op) : \E o \in Outcomes(op, view, m, id) :
            LET wrote == o.d # view \/ o.res = "ok" \/ o.ev # NoEvent
                evs == IF o.ev = NoEvent THEN staged ELSE Append(staged, o.ev)
            IN /\ Fault(o.fault)
               /\ IF useTx
                  THEN /\ txdb' = [rows |-> o.d.rows, labels |-> o.d.labels,
                                   muts |-> IF wrote THEN Append(txdb.muts, id) ELSE txdb.muts]
                       /\ UNCHANGED <<db, committed>>
                  ELSE /\ db' = o.d
                       /\ committed' = IF wrote THEN Append(committed, id) ELSE committed
                       /\ UNCHANGED txdb
               /\ nmut' = IF wrote THEN id ELSE nmut
               /\ mut' = IF wrote
                         THEN Append(mut, [unit |-> IF useTx THEN tx ELSE 0,
                                           by |-> IF useTx THEN p ELSE NoCaller,
                                           kind |-> m.kind, event |-> o.ev # NoEvent])
                         ELSE mut
               /\ IF commitNow /\ o.res = "ok"
                  THEN watches' = Dispatch(watches, evs) /\ staged' = <<>>
                  ELSE watches' = watches /\ staged' = evs
               /\ Result(p, o.res)
    /\ UNCHANGED <<dbMutex, tx, handle, ntx, txStatus, txOwner, wreg>>

\* Insert that never runs Journal.Commit().
InsertNoJournalCommit(p) == Mutate(p, "Insert", tx # 0, tx = 0, FALSE)
\* Insert that ignores r.tx: it writes through r.db without taking dbMutex.
InsertBypassTx(p) == Mutate(p, "Insert", FALSE, FALSE, TRUE)
\* Delete that never runs Journal.Commit().
DeleteNoJournalCommit(p) == Mutate(p, "Delete", tx # 0, tx = 0, FALSE)

Insert(p) == Mutate(p, "Insert", tx # 0, tx = 0, tx = 0)
Update(p) == Mutate(p, "Update", tx # 0, tx = 0, tx = 0)
Delete(p) == Mutate(p, "Delete", tx # 0, tx = 0, tx = 0)

\* A mutation method called with r.tx == nil while dbMutex is locked: the
\* caller takes the RWMutex and blocks at r.dbMutex.Lock(). Every unlock of
\* dbMutex is made by a method that holds the RWMutex, so the caller stays
\* there.
MutateWait(p) ==
    /\ nmut < MaxMut
    /\ CanLock(p)
    /\ tx = 0 /\ dbMutex
    /\ mu' = p
    /\ pc' = [pc EXCEPT ![p] = "Mutate"]
    /\ UNCHANGED <<dbMutex, tx, db, txdb, staged, watches, handle, ret, got, ntx, nfail, nmut,
                   committed, mut, txStatus, txOwner, wreg>>

\* ----------------------------------------------------------- Commit / End
\* The guard without its r.tx != tx.ref.
TxValidAnyOpen(p) == tx # 0

\* The guard of commit and end: the Tx is the one in progress.
TxValid(p) == tx # 0 /\ tx = handle[p]

\* The deferred func of commit and end: r.dbMutex.Unlock(); r.tx = nil.
Release ==
    /\ dbMutex' = FALSE
    /\ tx' = 0
    /\ txdb' = NoTxDB

\* Tx.Commit() -> Client.commit(tx), on the *Tx the caller was given.
Commit(p) ==
    /\ handle[p] # 0
    /\ IF ~TxValid(p)
       THEN /\ Result(p, "TxInvalid")
            /\ UNCHANGED <<dbMutex, tx, db, txdb, staged, watches, committed, txStatus, nfail>>
       ELSE /\ Release
            /\ \/ /\ Fault(FALSE)
                  /\ db' = [rows |-> txdb.rows, labels |-> txdb.labels]
                  /\ committed' = Concat(committed, txdb.muts)
                  /\ watches' = Dispatch(watches, staged)      \* r.journal.Commit()
                  /\ staged' = <<>>
                  /\ txStatus' = [txStatus EXCEPT ![tx] = "committed"]
                  /\ Result(p, "ok")
               \/ /\ Fault(TRUE)                               \* r.tx.Commit() failed
                  /\ txStatus' = [txStatus EXCEPT ![tx] = "commitFailed"]
                  /\ Result(p, "err")
                  /\ UNCHANGED <<db, committed, watches, staged>>
    /\ UNCHANGED <<handle, ntx, nmut, mut, txOwner, wreg>>

\* end that runs r.journal.Unstage() before it tests the Tx.
EndUnstageFirst(p) ==
    /\ handle[p] # 0
    /\ IF ~TxValid(p)
       THEN /\ Result(p, "TxInvalid")
            /\ staged' = <<>>
            /\ UNCHANGED <<dbMutex, tx, txdb, txStatus, nfail>>
       ELSE /\ Release
            /\ Fault(FALSE)
            /\ staged' = <<>>
            /\ Result(p, "ok")
            /\ txStatus' = [txStatus EXCEPT ![tx] = "ended"]
    /\ UNCHANGED <<db, watches, committed, handle, ntx, nmut, mut, txOwner, wreg>>

\* Tx.End() -> Client.end(tx), on the *Tx the caller was given.
End(p) ==
    /\ handle[p] # 0
    /\ IF ~TxValid(p)
       THEN /\ Result(p, "TxInvalid")
            /\ UNCHANGED <<dbMutex, tx, txdb, staged, txStatus, nfail>>
       ELSE /\ Release
            /\ \/ /\ Fault(FALSE)
                  /\ staged' = <<>>                            \* r.journal.Unstage()
                  /\ Result(p, "ok")
               \/ /\ Fault(TRUE)                               \* r.tx.Rollback() failed
                  /\ Result(p, "err")
                  /\ UNCHANGED staged
            /\ txStatus' = [txStatus EXCEPT ![tx] = "ended"]
    /\ UNCHANGED <<db, watches, committed, handle, ntx, nmut, mut, txOwner, wreg>>

\* ----------------------------------------------------------- GetForUpdate
\* GetForUpdate, up to the r.Lock() of its r.Begin().
GetForUpdateLock(p) ==
    /\ ntx < MaxTx
    /\ ~(tx # 0 /\ txOwner[tx] = p)
    /\ CanLock(p)
    /\ mu' = p
    /\ pc' = [pc EXCEPT ![p] = "GetForUpdate"]
    /\ UNCHANGED <<dbMutex, tx, db, txdb, staged, watches, handle, ret, got, ntx, nfail, nmut,
                   committed, mut, txStatus, txOwner, wreg>>

\* GetForUpdate, the rest of its r.Begin(): r.dbMutex.Lock() returns, db.Begin()
\* opens the transaction (GetForUpdate goes on to its Get) or fails
\* (GetForUpdate returns nil and the error).
GetForUpdateBegin(p) ==
    /\ pc[p] = "GetForUpdate"
    /\ ~dbMutex
    /\ dbMutex' = TRUE
    /\ mu' = NoCaller
    /\ \/ /\ Fault(FALSE)
          /\ ntx' = ntx + 1
          /\ tx' = ntx + 1
          /\ txdb' = [rows |-> db.rows, labels |-> db.labels, muts |-> <<>>]
          /\ txStatus' = [txStatus EXCEPT ![ntx + 1] = "open"]
          /\ txOwner' = [txOwner EXCEPT ![ntx + 1] = p]
          /\ pc' = [pc EXCEPT ![p] = "GetForUpdateGet"]
          /\ UNCHANGED ret
       \/ /\ Fault(TRUE)
          /\ ret' = "err"
          /\ pc' = [pc EXCEPT ![p] = "idle"]
          /\ UNCHANGED <<tx, txdb, ntx, txStatus, txOwner>>
    /\ UNCHANGED <<db, staged, watches, handle, got, nmut, committed, mut, wreg>>

\* The Tx the r.Begin() of caller p's GetForUpdate returned (its local tx).
LocalTx(p) == CHOOSE t \in 1..MaxTx : txOwner[t] = p /\ txStatus[t] = "open"

\* GetForUpdate(m), from Table{r.db}.Get(model) to its return. The Get takes
\* no lock. When it finds the row, GetForUpdate returns the Tx. When it finds
\* none, or fails, GetForUpdate calls tx.End(), which starts with r.Lock(),
\* drops the error of End and returns nil and the error of the Get.
GetForUpdateGet(p, m) ==
    /\ pc[p] = "GetForUpdateGet"
    /\ pc' = [pc EXCEPT ![p] = "idle"]
    /\ \/ /\ HasRow(db, m)
          /\ Fault(FALSE)
          /\ handle' = [handle EXCEPT ![p] = LocalTx(p)]
          /\ ret' = "ok"
          /\ UNCHANGED <<dbMutex, tx, txdb, staged, txStatus>>
       \/ /\ mu = NoCaller
          /\ \E getFault \in BOOLEAN, endFault \in BOOLEAN :
               /\ ~getFault => ~HasRow(db, m)
               /\ ret' = IF getFault THEN "err" ELSE "NotFound"
               /\ nfail' = nfail + (IF getFault THEN 1 ELSE 0) + (IF endFault THEN 1 ELSE 0)
               /\ nfail' <= MaxFail
               /\ IF tx # 0 /\ tx = LocalTx(p)
                  THEN /\ Release
                       /\ staged' = IF endFault THEN staged ELSE <<>>
                       /\ txStatus' = [txStatus EXCEPT ![tx] = "ended"]
                  ELSE /\ ~endFault
                       /\ UNCHANGED <<dbMutex, tx, txdb, staged, txStatus>>
          /\ UNCHANGED handle
    /\ UNCHANGED <<mu, db, watches, got, ntx, nmut, committed, mut, txOwner, wreg>>

\* ------------------------------------------------------ Get / List / Count
\* Reads through the open transaction: Table{r.tx} while one is open.
ReadViewTx == IF tx # 0 THEN [rows |-> txdb.rows, labels |-> txdb.labels] ELSE db

\* The handle Get, List and Count read through: Table{r.db}.
ReadView == db

\* A read method, called by a caller that is in no other method: it takes
\* neither lock and touches no field of the Client but r.db; the backend call
\* returns what it read (res, val), or fails and hands nothing back.
Read(res, val) ==
    /\ \E p \in Callers : pc[p] = "idle"
    /\ \/ ret' = res /\ got' = val
       \/ ret' = "err" /\ got' = got
    /\ UNCHANGED <<mu, dbMutex, tx, db, txdb, staged, watches, pc, handle, ntx, nfail, nmut,
                   committed, mut, txStatus, txOwner, wreg>>

\* Client.Get: the row with the model's primary key, or NotFound.
Get(m) ==
    IF HasRow(ReadView, m)
    THEN Read("ok", ReadResult("Get", <<m.kind, m.pk>>, <<TableGet(ReadView, m)>>, 0))
    ELSE Read("NotFound", ReadResult("Get", <<m.kind, m.pk>>, <<>>, 0))

\* Client.List with no predicate: the rows of the type.
List(kind) == Read("ok", ReadResult("List", <<kind>>, TableList(ReadView, kind), 0))

\* Client.Count with no predicate: the number of rows of the type.
Count(kind) == Read("ok", ReadResult("Count", <<kind>>, <<>>, Len(TableList(ReadView, kind))))

\* ------------------------------------------------------------------ Watch
NewWatch(kind) == [kind |-> kind, queue |-> <<>>, started |-> FALSE]

\* Watch listing through the open transaction: Table{r.tx}.List.
WatchListTx(kind) == TableList(IF tx # 0 THEN txdb ELSE db, kind)

\* The rows Client.Watch lists for its snapshot: Table{r.db}.List.
WatchList(kind) == TableList(db, kind)

\* Client.Watch, from r.Lock() to its return: the watch is registered with
\* the Journal; the rows listed are replayed as Created events and the watch
\* is started, or the List fails and Watch returns the error.
Watch(p) ==
    /\ Len(watches) < MaxWatch
    /\ \E kind \in Kinds :
         /\ wreg' = Append(wreg, [known |-> Range(committed),
                                  pending |-> {staged[i].id : i \in 1..Len(staged)},
                                  rows |-> TableList(db, kind)])
         /\ \/ /\ Fault(FALSE)
               /\ watches' = Append(watches, [NewWatch(kind) EXCEPT !.queue = Snapshot(WatchList(kind)),
                                                                    !.started = TRUE])
               /\ Result(p, "ok")
            \/ /\ Fault(TRUE)
               /\ watches' = Append(watches, NewWatch(kind))
               /\ Result(p, "err")
    /\ UNCHANGED <<dbMutex, tx, db, txdb, staged, handle, ntx, nmut,
                   committed, mut, txStatus, txOwner>>

\* ------------------------------------------------------------------- Next
Next ==
    \E p \in Callers :
        \/ BeginLock(p)
        \/ BeginTx(p)
        \/ Insert(p)
        \/ Update(p)
        \/ Delete(p)
        \/ MutateWait(p)
        \/ Commit(p)
        \/ End(p)
        \/ Watch(p)
        \/ GetForUpdateLock(p)
        \/ GetForUpdateBegin(p)
        \/ \E m \in GetModels : GetForUpdateGet(p, m)

Spec == Init /\ [][Next]_vars

\* The Client with its read methods, without watches and with a backend that
\* does not fail: the callers begin, mutate, commit and end as in Spec, and
\* Get, List and Count at any time.
ReadNext ==
    \/ \E p \in Callers :
          /\ UNCHANGED nfail
          /\ \/ BeginLock(p)
             \/ BeginTx(p)
             \/ Insert(p)
             \/ Update(p)
             \/ Delete(p)
             \/ MutateWait(p)
             \/ Commit(p)
             \/ End(p)
    \/ \E m \in GetModels : Get(m)
    \/ \E kind \in Kinds : List(kind)
    \/ \E kind \in Kinds : Count(kind)

ReadSpec == Init /\ [][ReadNext]_vars

\* The Client opened (Open(false)) on a database that holds one row, with
\* its label.
WarmRow == [kind |-> "A", pk |-> 1, val |-> 1]
WarmInit ==
    /\ mu = NoCaller
    /\ dbMutex = FALSE
    /\ tx = 0
    /\ db = insertLabels(TableInsert(EmptyDB, WarmRow), WarmRow)
    /\ txdb = NoTxDB
    /\ staged = <<>>
    /\ watches = <<>>
    /\ pc = [p \in Callers |-> "idle"]
    /\ handle = [p \in Callers |-> 0]
    /\ ret = "none"
    /\ got = NoRead
    /\ ntx = 0
    /\ nfail = 0
    /\ nmut = 0
    /\ committed = <<>>
    /\ mut = <<>>
    /\ txStatus = [t \in 1..MaxTx |-> "none"]
    /\ txOwner = [t \in 1..MaxTx |-> NoCaller]
    /\ wreg = <<>>

WarmSpec == WarmInit /\ [][Next]_vars

\* ================================================================ claims
\* The events a watch got from Journal.Commit (its snapshot events have id 0).
Live(w) == SelectSeq(watches[w].queue, LAMBDA e : e.id # 0)
LiveIds(w) == {watches[w].queue[i].id : i \in 1..Len(watches[w].queue)} \ {0}
\* The watches Client.Watch returned.
Started == {w \in 1..Len(watches) : watches[w].started}
TxIds == 1..MaxTx

\* C1: while a second caller's Begin() is blocked on the Tx of a first
\* caller, the first caller's Commit() can still run to completion (so that
\* the second Begin() can then return).
C1_CommitRunsWhileBeginBlocked ==
    \A p \in Callers, q \in Callers :
        (pc[p] = "Begin" /\ pc[q] = "idle" /\ p # q /\ tx # 0 /\ txOwner[tx] = q /\ handle[q] = tx)
            => ENABLED Commit(q)

\* C2: a live event of a mutation made in a Tx is delivered only if that
\* Tx's Commit succeeded (never before the Commit, never after a failed
\* Commit or an End), and the events of one Tx reach a watch as one block,
\* in staging order.
C2_TxEventsOnlyOnCommit ==
    \A w \in 1..Len(watches) :
        LET q == Live(w) IN
        /\ \A i \in 1..Len(q) :
             mut[q[i].id].unit # 0 => txStatus[mut[q[i].id].unit] = "committed"
        /\ \A i \in 1..Len(q), j \in 1..Len(q) :
             (i < j /\ mut[q[i].id].unit # 0 /\ mut[q[i].id].unit = mut[q[j].id].unit)
                => /\ q[i].id < q[j].id
                   /\ \A k \in i..j : mut[q[k].id].unit = mut[q[i].id].unit

\* C3: a watch Client.Watch returned (a) has every event of its type whose
\* mutation was committed after its registration, (b) has no live event of a
\* mutation that was committed before its registration (those are in its
\* snapshot), and (c) has all its snapshot events before its live events.
C3_WatchNoGapNoDuplicate ==
    \A w \in Started :
        /\ \A i \in Range(committed) \ wreg[w].known :
             (mut[i].event /\ mut[i].kind = watches[w].kind) => i \in LiveIds(w)
        /\ LiveIds(w) \cap wreg[w].known = {}
        /\ \A i \in 1..Len(watches[w].queue), j \in 1..Len(watches[w].queue) :
             (i < j /\ watches[w].queue[i].id # 0) => watches[w].queue[j].id # 0

\* A watch registered while an open Tx had a staged event has received that
\* event after the Tx was committed.
C3_Witness ==
    \E w \in Started : \E i \in LiveIds(w) \cap wreg[w].pending :
        /\ mut[i].unit # 0
        /\ txStatus[mut[i].unit] = "committed"
        /\ i \in Range(committed)

\* C4: every live event a watch received belongs to a mutation that was
\* committed in the backend.
C4_DeliveredEventsCommitted ==
    \A w \in 1..Len(watches) : LiveIds(w) \subseteq Range(committed)

\* C5: when End() returns on the active Tx, with or without an error, no Tx
\* is active, dbMutex is unlocked and the Journal has no staged entry of
\* that Tx.
C5_EndDiscardsAll ==
    [][\A t \in TxIds :
          (txStatus[t] = "open" /\ txStatus'[t] = "ended")
             => /\ tx' = 0
                /\ ~dbMutex'
                /\ \A i \in 1..Len(staged') : mut'[staged'[i].id].unit # t]_vars

\* C6: at most one Tx is outstanding (begun, and neither committed nor
\* ended), and it is the one the Client records.
C6_OneTxOutstanding ==
    /\ Cardinality({t \in TxIds : txStatus[t] = "open"}) <= 1
    /\ \A t \in TxIds : txStatus[t] = "open" => tx = t

\* A second Tx is open after a first one was committed or ended.
C6_Witness ==
    \E t \in TxIds, u \in TxIds :
        txStatus[t] \in {"committed", "ended"} /\ txStatus[u] = "open"

\* C7: a mutation that ran inside a Tx was issued by the caller that Begin()
\* returned that Tx to.
C7_TxUsedOnlyByOwner ==
    \A i \in 1..Len(mut) : mut[i].unit # 0 => mut[i].by = txOwner[mut[i].unit]

\* C8: when a mutation made with no Tx active returns success, its event is
\* the last one of the queue of every watch of its type that existed before
\* the call, and the Journal has no staged event.
C8_AutocommitDelivered ==
    [][(nmut' = nmut + 1 /\ mut'[nmut'].unit = 0 /\ mut'[nmut'].event)
          => /\ staged' = <<>>
             /\ \A w \in Started :
                  watches[w].kind = mut'[nmut'].kind
                     => /\ Len(watches'[w].queue) > Len(watches[w].queue)
                        /\ watches'[w].queue[Len(watches'[w].queue)].id = nmut']_vars

\* A watch has received the event of an autocommit mutation.
C8_Witness ==
    \E w \in Started : \E i \in LiveIds(w) : mut[i].unit = 0

\* C9: the live events of committed mutations reach every watch in the order
\* in which the backend committed the mutations.
C9_EventsInCommitOrder ==
    \A w \in 1..Len(watches) :
        LET q == Live(w) IN
        \A i \in 1..Len(q), j \in 1..Len(q) :
            (i < j /\ q[i].id \in Range(committed) /\ q[j].id \in Range(committed))
                => IndexOf(committed, q[i].id) < IndexOf(committed, q[j].id)

\* A watch has received the events of two write units that committed one
\* after the other, one of them a Tx.
C9_Witness ==
    \E w \in Started : \E i \in LiveIds(w), j \in LiveIds(w) :
        /\ mut[i].unit # mut[j].unit
        /\ mut[i].unit # 0
        /\ {i, j} \subseteq Range(committed)

\* C10: the queue of a watch starts with exactly one Created event per row
\* of its type that was committed when it was created, in List order, no
\* row twice, and everything after them is a live event.
C10_SnapshotExact ==
    \A w \in Started :
        LET rows == wreg[w].rows
            q == watches[w].queue
        IN /\ Len(q) >= Len(rows)
           /\ \A i \in 1..Len(rows) : q[i] = CreatedEvent(rows[i], 0)
           /\ \A i \in 1..Len(rows), j \in 1..Len(rows) : i # j => ~SameKey(q[i], q[j])
           /\ \A i \in (Len(rows) + 1)..Len(q) : q[i].id # 0

\* A watch was created over two committed rows of its type.
C10_Witness ==
    \E w \in Started : Len(wreg[w].rows) = 2 /\ Len(watches[w].queue) >= 2

\* C11: a GetForUpdate whose Get finds no row for the key ends the Tx it
\* began and returns: from the point where its Begin() has returned, the rest
\* of the call (the Get, tx.End(), the return of NotFound) can run, whatever
\* the other callers are doing, so that no Tx is left open by it.
C11_GetForUpdateEndsItsTx ==
    \A p \in Callers, m \in GetModels :
        (pc[p] = "GetForUpdateGet" /\ ~HasRow(db, m)) => ENABLED GetForUpdateGet(p, m)

\* The handle a mutation method writes through: r.tx when a Tx is active,
\* else r.db.
WriteView == IF tx # 0 THEN [rows |-> txdb.rows, labels |-> txdb.labels] ELSE db
Terminated == {"committed", "ended"}

\* C12: a Commit() or End() on a Tx that was already committed or ended
\* returns TxInvalidError.
C12_SecondCommitEndInvalid ==
    [][\A p \in Callers :
          (handle[p] # 0 /\ txStatus[handle[p]] \in Terminated /\ (Commit(p) \/ End(p)))
             => ret' = "TxInvalid"]_vars

\* A second End() or Commit() was rejected with no Tx active.
C12_Witness ==
    /\ ret = "TxInvalid"
    /\ tx = 0
    /\ \E p \in Callers : handle[p] # 0 /\ txStatus[handle[p]] \in Terminated

\* An autocommit mutation call that returns an error.
FailedAutocommit(p) ==
    /\ tx = 0
    /\ ret' \in {"err", "NotFound"}
    /\ Insert(p) \/ Update(p) \/ Delete(p)

\* C13 as stated: when an autocommit Insert/Update/Delete returns an error,
\* no primary row and no label row differs from before the call, and no
\* event is staged or delivered.
C13_FailedMutationNoChange ==
    [][\A p \in Callers :
          FailedAutocommit(p) => (db' = db /\ staged' = staged /\ watches' = watches)]_vars

\* What a write of model m that stopped in its label synchronization leaves:
\* the primary write applied, the rows and labels of the other models as
\* they were, the labels of m among those it had and those it has now.
PartlyWritten(m) ==
    /\ db'.rows \in {TableInsert(db, m).rows, TableUpdate(db, m).rows, TableDelete(db, m).rows}
    /\ db'.labels \ LabelsOf(db', m) = db.labels \ LabelsOf(db, m)
    /\ LabelsOf(db', m) \subseteq LabelsOf(db, m) \cup LabelRows(m)

\* C13 as amended: when an autocommit Insert/Update/Delete returns an error,
\* no event is staged or delivered, and the backend is as before the call or
\* holds the primary write of the model with its labels partly synchronized.
C13_FailedMutationNoEvent ==
    [][\A p \in Callers :
          FailedAutocommit(p)
             => /\ staged' = staged
                /\ watches' = watches
                /\ db' = db \/ \E m \in Models : PartlyWritten(m)]_vars

\* An autocommit mutation failed in its label synchronization: its primary
\* write is committed, it staged no event.
C13_Witness ==
    /\ ret = "err"
    /\ Len(mut) > 0
    /\ mut[Len(mut)].unit = 0
    /\ ~mut[Len(mut)].event
    /\ Len(committed) > 0
    /\ committed[Len(committed)] = Len(mut)

\* Every write made so far came from a call that returned success.
AllSucceeded == \A i \in 1..Len(mut) : mut[i].event

\* C14: while every Insert/Update/Delete call so far succeeded, the
\* committed Label rows of each (Kind, Parent) are exactly the label mapping
\* of the committed row with that key, and none when there is no such row.
C14_LabelsMirrorModel ==
    AllSucceeded =>
        \A m \in GetModels :
            LabelsOf(db, m) = IF HasRow(db, m) THEN LabelRows(TableGet(db, m)) ELSE {}

\* An Update that changed the label value was committed and delivered.
C14_Witness ==
    /\ AllSucceeded
    /\ \E w \in Started : \E i \in 1..Len(watches[w].queue) :
         LET e == watches[w].queue[i] IN
         /\ e.action = "Updated" /\ e.prior # e.val
         /\ HasRow(db, e) /\ TableGet(db, e).val = e.val

\* C15: an Update of a model whose row does not exist returns the Get error
\* and changes nothing: no row, no label, no staged entry, no delivered
\* event, and the active Tx (if any) stays active.
C15_UpdateMissingAborts ==
    [][\A p \in Callers :
          ((\A m \in UpdateModels : ~HasRow(WriteView, m)) /\ Update(p))
             => /\ ret' = "NotFound"
                /\ UNCHANGED <<db, txdb, staged, watches, tx, dbMutex, txStatus, committed>>]_vars

\* An Update found no row inside an active Tx.
C15_Witness ==
    /\ ret = "NotFound"
    /\ tx # 0 /\ dbMutex /\ txStatus[tx] = "open"
    /\ \A m \in UpdateModels : ~HasRow(WriteView, m)

\* A step in which a read method returned something else than the read
\* before it, and no error.
ReadReturned(op) == got' # got /\ got'.op = op /\ ret' # "err"

\* C16: Get, List and Count take neither lock and return what is committed:
\* the row with the key, the rows of the type and the number of rows of the
\* type in the committed state, whatever an open Tx has written.
C16_ReadsSeeCommitted ==
    [][/\ ReadReturned("Get")
            => /\ got'.rows = SelectSeq(db.rows, LAMBDA r : <<r.kind, r.pk>> = got'.arg)
               /\ ret' = IF got'.rows = <<>> THEN "NotFound" ELSE "ok"
               /\ UNCHANGED <<mu, dbMutex>>
       /\ ReadReturned("List")
            => /\ got'.rows = SelectSeq(db.rows, LAMBDA r : <<r.kind>> = got'.arg)
               /\ UNCHANGED <<mu, dbMutex>>
       /\ ReadReturned("Count")
            => /\ got'.n = Cardinality({i \in 1..Len(db.rows) : <<db.rows[i].kind>> = got'.arg})
               /\ UNCHANGED <<mu, dbMutex>>]_vars

\* A read completed while another caller's Tx was open with a write to the
\* row that is not committed.
C16_Witness ==
    /\ got.op \in {"Get", "List"}
    /\ ret \in {"ok", "NotFound"}
    /\ tx # 0 /\ dbMutex
    /\ got.arg \in {<<"A">>, <<"A", 1>>}
    /\ \E p \in Callers : pc[p] = "idle" /\ txOwner[tx] # p
    /\ got.rows \in {SelectSeq(db.rows, LAMBDA r : r.kind = "A"),
                      SelectSeq(db.rows, LAMBDA r : r.kind = "A" /\ r.pk = 1)}
    /\ SelectSeq(txdb.rows, LAMBDA r : r.kind = "A" /\ r.pk = 1)
          # SelectSeq(db.rows, LAMBDA r : r.kind = "A" /\ r.pk = 1)

\* The event an Update call made carries the stored value of the row before
\* the call as prior and its stored value after the call as new value.
UpdateEventOk(e) ==
    /\ e.action = "Updated"
    /\ e.prior = TableGet(WriteView, e).val
    /\ e.val = TableGet(IF tx # 0 THEN txdb' ELSE db', e).val

\* C17: the Updated event of a successful Update (the last one staged in the
\* Tx or, with no Tx, the last one queued for each watch of the type) carries
\* the value the row had right before the call as prior and the value it has
\* right after as new value; for two Updates of the same row made one right
\* after the other in one Tx (no other write, completed or not, between
\* them), the prior of the second is the new value of the first.
C17_UpdatedCarriesPrior ==
    [][/\ \A p \in Callers :
            (ret' = "ok" /\ nmut' = nmut + 1 /\ Update(p))
               => IF tx # 0
                  THEN UpdateEventOk(staged'[Len(staged')])
                  ELSE \A w \in 1..Len(watches) :
                          watches[w].kind = "A"
                             => UpdateEventOk(watches'[w].queue[Len(watches'[w].queue)])
       /\ \A i \in 1..(Len(staged') - 1) :
            (/\ staged'[i].action = "Updated" /\ staged'[i + 1].action = "Updated"
             /\ SameKey(staged'[i], staged'[i + 1])
             /\ staged'[i + 1].id = staged'[i].id + 1
             /\ mut'[staged'[i].id].unit = mut'[staged'[i + 1].id].unit)
               => staged'[i + 1].prior = staged'[i].val]_vars

\* Two Updates of one row are staged in one Tx, each changing the value.
C17_Witness ==
    /\ tx # 0
    /\ Len(staged) = 2
    /\ staged[1].action = "Updated" /\ staged[2].action = "Updated"
    /\ staged[1].prior # staged[1].val
    /\ staged[2].prior = staged[1].val
    /\ staged[2].id = staged[1].id + 1
    /\ mut[staged[1].id].unit = tx /\ mut[staged[2].id].unit = tx

\* C18: a Commit() or End() rejected with TxInvalidError changes nothing
\* but what the call returns: the active Tx, dbMutex, the backend and the
\* Journal's staged entries and watches are as before.
C18_RejectedChangesNothing ==
    [][\A p \in Callers :
          (ret' = "TxInvalid" /\ (Commit(p) \/ End(p)))
             => UNCHANGED <<mu, dbMutex, tx, db, txdb, staged, watches, pc, handle,
                            committed, mut, txStatus, txOwner>>]_vars

\* A stale Tx handle was rejected while another caller's Tx is active with
\* staged entries.
C18_Witness ==
    /\ ret = "TxInvalid"
    /\ tx # 0 /\ dbMutex /\ txStatus[tx] = "open"
    /\ staged # <<>>
    /\ \E p \in Callers :
         /\ handle[p] # 0 /\ handle[p] # tx
         /\ txStatus[handle[p]] = "committed"
         /\ txOwner[tx] # p

\* C19: when no caller is inside a Client method, dbMutex is locked exactly
\* when the Client records an active Tx.
C19_LockHeldIffTxActive ==
    (\A p \in Callers : pc[p] = "idle") => (dbMutex <=> tx # 0)

\* C20: every watch registered with the Journal is one a Watch() call
\* returned: a Watch() that failed left none behind.
C20_FailedWatchNotRegistered ==
    \A w \in 1..Len(watches) : watches[w].started

====
